---- MODULE Spec2Model ----
(***************************************************************************)
(* Model of src/tcpsockets.py: a thread-per-connection TCP echo server     *)
(* (start_server, handle_clientconnection) together with the clients that  *)
(* talk to it over byte streams.                                           *)
(***************************************************************************)
EXTENDS Integers, Sequences, FiniteSets, TLC

\* ---------------------------------------------------------------- bounds
NumClients == 2
MaxMsgs == 2
MaxCalls == 2
MaxSortLen == 4

Clients == 1..NumClients

\* ------------------------------------------------------------- constants
\* client_socket.recv(1024)
RecvBufSize == 1024

\* "Server received: " as code points
ResponsePrefix ==
  <<83, 101, 114, 118, 101, 114, 32, 114, 101, 99, 101, 105, 118, 101, 100, 58, 32>>

\* configuration of the specified server; the source has no such settings
MaxFrameSize == 5
MaxConcurrentSessions == 1

\* payloads: "hello", "hi", U+00E9 (two bytes in UTF-8), "hello!" (oversized)
Hello == <<104, 101, 108, 108, 111>>
PayloadHi == <<104, 105>>
PayloadEAcute == <<195, 169>>
PayloadOversize == <<104, 101, 108, 108, 111, 33>>

Min(a, b) == IF a <= b THEN a ELSE b

\* ------------------------------------------------------------ byte level
\* bytes.decode('utf-8') with the default strict error handler
IsCont(b) == b >= 128 /\ b <= 191

\* the number of leading bytes (or code points) below 128: the ASCII run that
\* decodes, and encodes, to itself
AsciiRun(b) ==
  IF \A i \in 1..Len(b) : b[i] < 128 THEN Len(b)
  ELSE (CHOOSE i \in 1..Len(b) : b[i] >= 128 /\ \A j \in 1..(i - 1) : b[j] < 128) - 1

RECURSIVE Utf8Decode(_)
Utf8Decode(b) ==
  IF b = <<>> THEN [ok |-> TRUE, cps |-> <<>>]
  ELSE
    LET b0 == b[1]
        n  == Len(b)
        rest(k, cp) ==
          LET r == Utf8Decode(SubSeq(b, k + 1, n))
          IN  IF r.ok THEN [ok |-> TRUE, cps |-> cp \o r.cps]
              ELSE [ok |-> FALSE, cps |-> <<>>]
        bad == [ok |-> FALSE, cps |-> <<>>]
    IN
      IF b0 < 128 THEN rest(AsciiRun(b), SubSeq(b, 1, AsciiRun(b)))
      ELSE IF b0 >= 194 /\ b0 <= 223 THEN
        IF n >= 2 /\ IsCont(b[2])
        THEN rest(2, <<((b0 - 192) * 64) + (b[2] - 128)>>)
        ELSE bad
      ELSE IF b0 >= 224 /\ b0 <= 239 THEN
        IF /\ n >= 3 /\ IsCont(b[2]) /\ IsCont(b[3])
           /\ (b0 = 224 => b[2] >= 160)
           /\ (b0 = 237 => b[2] <= 159)
        THEN rest(3, <<((b0 - 224) * 4096) + ((b[2] - 128) * 64) + (b[3] - 128)>>)
        ELSE bad
      ELSE IF b0 >= 240 /\ b0 <= 244 THEN
        IF /\ n >= 4 /\ IsCont(b[2]) /\ IsCont(b[3]) /\ IsCont(b[4])
           /\ (b0 = 240 => b[2] >= 144)
           /\ (b0 = 244 => b[2] <= 143)
        THEN rest(4, <<((b0 - 240) * 262144) + ((b[2] - 128) * 4096)
                         + ((b[3] - 128) * 64) + (b[4] - 128)>>)
        ELSE bad
      ELSE bad

\* str.encode('utf-8') for strings without surrogates
RECURSIVE Utf8Encode(_)
Utf8Encode(s) ==
  IF s = <<>> THEN <<>>
  ELSE
    LET cp == s[1]
        k  == IF cp < 128 THEN AsciiRun(s) ELSE 1
        hd == IF cp < 128 THEN SubSeq(s, 1, k)
              ELSE IF cp < 2048 THEN <<192 + (cp \div 64), 128 + (cp % 64)>>
              ELSE IF cp < 65536 THEN
                <<224 + (cp \div 4096), 128 + ((cp \div 64) % 64), 128 + (cp % 64)>>
              ELSE
                <<240 + (cp \div 262144), 128 + ((cp \div 4096) % 64),
                  128 + ((cp \div 64) % 64), 128 + (cp % 64)>>
    IN  hd \o Utf8Encode(SubSeq(s, k + 1, Len(s)))

\* f"Server received: {data}".encode('utf-8')
ResponseFor(d) == Utf8Encode(ResponsePrefix \o d)

\* the wire format of the specification: 4-byte big-endian length, payload
frame(P) ==
  LET n == Len(P)
  IN  <<(n \div 16777216) % 256, (n \div 65536) % 256, (n \div 256) % 256, n % 256>> \o P

\* --------------------------------------------------------------- inputs
\* the messages a client program may be started with: the source's client
\* writes message.encode('utf-8'); a client of the specified protocol writes
\* frame(payload)
Payloads == {PayloadHi, PayloadEAcute}
RawWrites == Payloads
FramedWrites == {frame(PayloadHi)}
ScenarioWrites == {frame(Hello), frame(PayloadOversize)}

Scripts(S, n) == UNION {[1..k -> S] : k \in 0..n}

RECURSIVE SumLen(_, _)
SumLen(f, n) == IF n = 0 THEN 0 ELSE Len(f[n]) + SumLen(f, n - 1)

\* every assignment of scripts over S to the clients with at most n writes in
\* all; the clients are interchangeable, so the longer scripts go to the lower
\* client numbers
Assignments(S, n) ==
  {f \in [Clients -> Scripts(S, n)] :
     /\ SumLen(f, NumClients) <= n
     /\ \A c \in Clients : c > 1 => Len(f[c]) <= Len(f[c - 1])}

\* ---------------------------------------------------------------- state
VARIABLES
  lpc,      \* start_server: "start" (before bind/listen), "accept" (blocked in accept), "returned"
  lerr,     \* where the exception that ended start_server was raised:
            \* "none", "bind", "accept_transient", "accept_fatal", "thread"
  cli,      \* client end of connection c: "idle", "connected", "closed", "reset"
  script,   \* the byte strings client c writes, in order
  nsent,    \* how many of them it has sent
  c2s,      \* bytes sent by client c and not yet read by the server
  sock,     \* the accepted client_socket: "none", "open", "closed"
  sess,     \* handle_clientconnection thread: "none", "recv", "send", "close", "done"
  data,     \* the local variable data (a string, as code points)
  resp,     \* the byte strings passed to client_socket.sendall, in order
  err,      \* exception caught by the handler's bare except: "none" or its class
  closes,   \* how many times client_socket.close() was called on connection c
  mpc,      \* loading of the module: "load", "socket", "connect", "except", "loaded"
  cops,     \* the socket operations the client code has performed, in order
  cout,     \* the lines the client code has printed
  calls,    \* the calls of start_client made so far, with what each returned
  sin,      \* the list handed to the sorting functions
  sout      \* what the three sorting functions returned for it, "none" before

serverVars == <<lpc, lerr, cli, script, nsent, c2s, sock, sess, data, resp, err, closes>>
moduleVars == <<mpc, cops, cout, calls>>
sortVars == <<sin, sout>>
vars == <<serverVars, moduleVars, sortVars>>

\* the print in the except branch of the module-level client code
ClientErrorMessage == "Error encountered in start_client"

\* the client code after tcpsockets.py has been loaded: the socket was
\* created, nothing else was done with it, the except branch has printed
ModuleLoaded ==
  /\ mpc = "loaded"
  /\ cops = <<"socket">>
  /\ cout = <<ClientErrorMessage>>
  /\ calls = <<>>

\* no sorting function is running
\* no sort function has been called yet
NoResult == [done |-> {}, bubble |-> <<>>, quick |-> <<>>, merge |-> <<>>]

SortIdle ==
  /\ sin = <<>>
  /\ sout = NoResult

InitState(scripts) ==
  /\ lpc = "start"
  /\ lerr = "none"
  /\ cli = [c \in Clients |-> "idle"]
  /\ script \in scripts
  /\ nsent = [c \in Clients |-> 0]
  /\ c2s = [c \in Clients |-> <<>>]
  /\ sock = [c \in Clients |-> "none"]
  /\ sess = [c \in Clients |-> "none"]
  /\ data = [c \in Clients |-> <<>>]
  /\ resp = [c \in Clients |-> <<>>]
  /\ err = [c \in Clients |-> "none"]
  /\ closes = [c \in Clients |-> 0]
  /\ ModuleLoaded
  /\ SortIdle

Init == InitState(Assignments(RawWrites, MaxMsgs))

\* ------------------------------------------------------------- listener
\* socket(), bind(), listen() succeed
Listen ==
  /\ lpc = "start"
  /\ lpc' = "accept"
  /\ UNCHANGED <<lerr, cli, script, nsent, c2s, sock, sess, data, resp, err, closes>>
  /\ UNCHANGED <<moduleVars, sortVars>>

\* socket(), bind() or listen() raises: the outer except prints and returns
BindError ==
  /\ lpc = "start"
  /\ lpc' = "returned"
  /\ lerr' = "bind"
  /\ UNCHANGED <<cli, script, nsent, c2s, sock, sess, data, resp, err, closes>>
  /\ UNCHANGED <<moduleVars, sortVars>>

\* accept() returns a connection and the handler thread is started
Accept(c) ==
  /\ lpc = "accept"
  /\ cli[c] # "idle"
  /\ sock[c] = "none"
  /\ sock' = [sock EXCEPT ![c] = "open"]
  /\ sess' = [sess EXCEPT ![c] = "recv"]
  /\ UNCHANGED <<lpc, lerr, cli, script, nsent, c2s, data, resp, err, closes>>
  /\ UNCHANGED <<moduleVars, sortVars>>

\* AcceptError with an except branch that also ends the handlers: every
\* session still in its loop is made to leave it
AcceptErrorStopsSessions(e) ==
  /\ lpc = "accept"
  /\ lpc' = "returned"
  /\ lerr' = e
  /\ sess' = [c \in Clients |-> IF sess[c] \in {"recv", "send"} THEN "close" ELSE sess[c]]
  /\ UNCHANGED <<cli, script, nsent, c2s, sock, data, resp, err, closes>>
  /\ UNCHANGED <<moduleVars, sortVars>>

\* accept() raises: a transient OSError such as EMFILE, or a fatal condition
\* (the listening socket was closed, KeyboardInterrupt when the process is told
\* to stop). The bare except is outside the while loop, so either kind ends
\* the loop and start_server returns
AcceptErrorKinds == {"accept_transient", "accept_fatal"}

AcceptError(e) ==
  /\ lpc = "accept"
  /\ lpc' = "returned"
  /\ lerr' = e
  /\ UNCHANGED <<cli, script, nsent, c2s, sock, sess, data, resp, err, closes>>
  /\ UNCHANGED <<moduleVars, sortVars>>

\* accept() returned but Thread.start() raises: no handler owns the socket
ThreadStartError(c) ==
  /\ lpc = "accept"
  /\ cli[c] # "idle"
  /\ sock[c] = "none"
  /\ sock' = [sock EXCEPT ![c] = "open"]
  /\ lpc' = "returned"
  /\ lerr' = "thread"
  /\ UNCHANGED <<cli, script, nsent, c2s, sess, data, resp, err, closes>>
  /\ UNCHANGED <<moduleVars, sortVars>>

\* -------------------------------------------------------------- handler
\* Recv with `continue` in place of `break` in the except branch: after a
\* chunk that does not decode the handler goes on with the next recv
RecvDecodeErrorContinues(c, k) ==
  /\ sess[c] = "recv"
  /\ cli[c] # "reset"
  /\ k >= 1 /\ k <= Min(RecvBufSize, Len(c2s[c]))
  /\ LET chunk == SubSeq(c2s[c], 1, k)
         d == Utf8Decode(chunk)
     IN  /\ c2s' = [c2s EXCEPT ![c] = SubSeq(c2s[c], k + 1, Len(c2s[c]))]
         /\ IF d.ok
            THEN /\ data' = [data EXCEPT ![c] = d.cps]
                 /\ sess' = [sess EXCEPT ![c] = "send"]
                 /\ err' = err
            ELSE /\ data' = data
                 /\ sess' = sess
                 /\ err' = [err EXCEPT ![c] = "UnicodeDecodeError"]
  /\ UNCHANGED <<lpc, lerr, cli, script, nsent, sock, resp, closes>>
  /\ UNCHANGED <<moduleVars, sortVars>>

\* Recv with a receive buffer that does not limit the read: the chunk is
\* everything that has arrived
RecvUnlimited(c, k) ==
  /\ sess[c] = "recv"
  /\ cli[c] # "reset"
  /\ k >= 1 /\ k <= Min(RecvBufSize, Len(c2s[c]))
  /\ LET d == Utf8Decode(c2s[c])
     IN  /\ c2s' = [c2s EXCEPT ![c] = <<>>]
         /\ IF d.ok
            THEN /\ data' = [data EXCEPT ![c] = d.cps]
                 /\ sess' = [sess EXCEPT ![c] = "send"]
                 /\ err' = err
            ELSE /\ data' = data
                 /\ sess' = [sess EXCEPT ![c] = "close"]
                 /\ err' = [err EXCEPT ![c] = "UnicodeDecodeError"]
  /\ UNCHANGED <<lpc, lerr, cli, script, nsent, sock, resp, closes>>
  /\ UNCHANGED <<moduleVars, sortVars>>

\* recv(1024) returns k bytes that decode: data is not empty
\* or the bytes do not decode: UnicodeDecodeError, except, break
Recv(c, k) ==
  /\ sess[c] = "recv"
  /\ cli[c] # "reset"
  /\ k >= 1 /\ k <= Min(RecvBufSize, Len(c2s[c]))
  /\ LET chunk == SubSeq(c2s[c], 1, k)
         d == Utf8Decode(chunk)
     IN  /\ c2s' = [c2s EXCEPT ![c] = SubSeq(c2s[c], k + 1, Len(c2s[c]))]
         /\ IF d.ok
            THEN /\ data' = [data EXCEPT ![c] = d.cps]
                 /\ sess' = [sess EXCEPT ![c] = "send"]
                 /\ err' = err
            ELSE /\ data' = data
                 /\ sess' = [sess EXCEPT ![c] = "close"]
                 /\ err' = [err EXCEPT ![c] = "UnicodeDecodeError"]
  /\ UNCHANGED <<lpc, lerr, cli, script, nsent, sock, resp, closes>>
  /\ UNCHANGED <<moduleVars, sortVars>>

\* RecvEof with a client_socket.close() in the `if not data` branch as well
RecvEofClosesEarly(c) ==
  /\ sess[c] = "recv"
  /\ cli[c] = "closed"
  /\ c2s[c] = <<>>
  /\ data' = [data EXCEPT ![c] = <<>>]
  /\ sess' = [sess EXCEPT ![c] = "close"]
  /\ sock' = [sock EXCEPT ![c] = "closed"]
  /\ closes' = [closes EXCEPT ![c] = @ + 1]
  /\ UNCHANGED <<lpc, lerr, cli, script, nsent, c2s, resp, err>>
  /\ UNCHANGED <<moduleVars, sortVars>>

\* recv returns b'' after the peer's orderly close: not data, break
RecvEof(c) ==
  /\ sess[c] = "recv"
  /\ cli[c] = "closed"
  /\ c2s[c] = <<>>
  /\ data' = [data EXCEPT ![c] = <<>>]
  /\ sess' = [sess EXCEPT ![c] = "close"]
  /\ UNCHANGED <<lpc, lerr, cli, script, nsent, c2s, sock, resp, err, closes>>
  /\ UNCHANGED <<moduleVars, sortVars>>

\* RecvError without the handler's try/except around it: the exception is
\* not confined to the handler
RecvErrorEscapes(c) ==
  /\ sess[c] = "recv"
  /\ cli[c] = "reset"
  /\ sess' = [sess EXCEPT ![c] = "close"]
  /\ err' = [err EXCEPT ![c] = "ConnectionResetError"]
  /\ lpc' = "returned"
  /\ UNCHANGED <<lerr, cli, script, nsent, c2s, sock, data, resp, closes>>
  /\ UNCHANGED <<moduleVars, sortVars>>

\* recv raises after the peer reset the connection: except, break
RecvError(c) ==
  /\ sess[c] = "recv"
  /\ cli[c] = "reset"
  /\ sess' = [sess EXCEPT ![c] = "close"]
  /\ err' = [err EXCEPT ![c] = "ConnectionResetError"]
  /\ UNCHANGED <<lpc, lerr, cli, script, nsent, c2s, sock, data, resp, closes>>
  /\ UNCHANGED <<moduleVars, sortVars>>

\* Send with client_socket taken from a variable shared by all handlers: the
\* response goes out on one connection whichever session wrote it
SendOnSharedSocket(c) ==
  /\ sess[c] = "send"
  /\ cli[c] # "reset"
  /\ resp' = [resp EXCEPT ![1] = Append(@, ResponseFor(data[c]))]
  /\ sess' = [sess EXCEPT ![c] = "recv"]
  /\ UNCHANGED <<lpc, lerr, cli, script, nsent, c2s, sock, data, err, closes>>
  /\ UNCHANGED <<moduleVars, sortVars>>

\* print, then sendall of the response succeeds
Send(c) ==
  /\ sess[c] = "send"
  /\ cli[c] # "reset"
  /\ resp' = [resp EXCEPT ![c] = Append(@, ResponseFor(data[c]))]
  /\ sess' = [sess EXCEPT ![c] = "recv"]
  /\ UNCHANGED <<lpc, lerr, cli, script, nsent, c2s, sock, data, err, closes>>
  /\ UNCHANGED <<moduleVars, sortVars>>

\* SendError with `continue` in place of `break` in the except branch: the
\* handler goes back to recv after the failed write
SendErrorContinues(c) ==
  /\ sess[c] = "send"
  /\ cli[c] \in {"reset", "closed"}
  /\ sess' = [sess EXCEPT ![c] = "recv"]
  /\ err' = [err EXCEPT ![c] = IF cli[c] = "reset" THEN "ConnectionResetError"
                                ELSE "BrokenPipeError"]
  /\ UNCHANGED <<lpc, lerr, cli, script, nsent, c2s, sock, data, resp, closes>>
  /\ UNCHANGED <<moduleVars, sortVars>>

\* SendError without the except around sendall: the exception ends the thread
\* before client_socket.close() is reached
SendErrorSkipsClose(c) ==
  /\ sess[c] = "send"
  /\ cli[c] \in {"reset", "closed"}
  /\ sess' = [sess EXCEPT ![c] = "done"]
  /\ err' = [err EXCEPT ![c] = IF cli[c] = "reset" THEN "ConnectionResetError"
                                ELSE "BrokenPipeError"]
  /\ UNCHANGED <<lpc, lerr, cli, script, nsent, c2s, sock, data, resp, closes>>
  /\ UNCHANGED <<moduleVars, sortVars>>

\* sendall raises (peer reset, or peer closed: broken pipe): except, break
SendError(c) ==
  /\ sess[c] = "send"
  /\ cli[c] \in {"reset", "closed"}
  /\ sess' = [sess EXCEPT ![c] = "close"]
  /\ err' = [err EXCEPT ![c] = IF cli[c] = "reset" THEN "ConnectionResetError"
                                ELSE "BrokenPipeError"]
  /\ UNCHANGED <<lpc, lerr, cli, script, nsent, c2s, sock, data, resp, closes>>
  /\ UNCHANGED <<moduleVars, sortVars>>

\* Close with client_socket.close() indented into the while loop: the handler
\* closes the socket and goes on with the next recv
CloseInsideLoop(c) ==
  /\ sess[c] = "close"
  /\ sock' = [sock EXCEPT ![c] = "closed"]
  /\ sess' = [sess EXCEPT ![c] = "recv"]
  /\ closes' = [closes EXCEPT ![c] = @ + 1]
  /\ UNCHANGED <<lpc, lerr, cli, script, nsent, c2s, data, resp, err>>
  /\ UNCHANGED <<moduleVars, sortVars>>

\* client_socket.close() after the loop
Close(c) ==
  /\ sess[c] = "close"
  /\ sock' = [sock EXCEPT ![c] = "closed"]
  /\ sess' = [sess EXCEPT ![c] = "done"]
  /\ closes' = [closes EXCEPT ![c] = @ + 1]
  /\ UNCHANGED <<lpc, lerr, cli, script, nsent, c2s, data, resp, err>>
  /\ UNCHANGED <<moduleVars, sortVars>>

\* -------------------------------------------------------------- clients
\* connect() to the listening socket (completes in the backlog)
ClientConnect(c) ==
  /\ lpc = "accept"
  /\ cli[c] = "idle"
  /\ cli' = [cli EXCEPT ![c] = "connected"]
  /\ UNCHANGED <<lpc, lerr, script, nsent, c2s, sock, sess, data, resp, err, closes>>
  /\ UNCHANGED <<moduleVars, sortVars>>

\* the client writes its next message with one sendall; a write to a
\* connection the server has already closed never reaches the server
ClientSend(c) ==
  /\ cli[c] = "connected"
  /\ sock[c] # "closed"
  /\ nsent[c] < Len(script[c])
  /\ nsent' = [nsent EXCEPT ![c] = @ + 1]
  /\ c2s' = [c2s EXCEPT ![c] = @ \o script[c][nsent[c] + 1]]
  /\ UNCHANGED <<lpc, lerr, cli, script, sock, sess, data, resp, err, closes>>
  /\ UNCHANGED <<moduleVars, sortVars>>

\* orderly close by the client, after the last write of its script
ClientClose(c) ==
  /\ cli[c] = "connected"
  /\ nsent[c] = Len(script[c])
  /\ cli' = [cli EXCEPT ![c] = "closed"]
  /\ UNCHANGED <<lpc, lerr, script, nsent, c2s, sock, sess, data, resp, err, closes>>
  /\ UNCHANGED <<moduleVars, sortVars>>

\* abortive close by the client after the last write of its script: unread
\* bytes are discarded
ClientReset(c) ==
  /\ cli[c] = "connected"
  /\ nsent[c] = Len(script[c])
  /\ cli' = [cli EXCEPT ![c] = "reset"]
  /\ c2s' = [c2s EXCEPT ![c] = <<>>]
  /\ UNCHANGED <<lpc, lerr, script, nsent, sock, sess, data, resp, err, closes>>
  /\ UNCHANGED <<moduleVars, sortVars>>

\* ------------------------------------------------------------------ spec
Next ==
  \/ Listen
  \/ BindError
  \/ \E e \in AcceptErrorKinds : AcceptError(e)
  \/ \E c \in Clients : Accept(c)
  \/ \E c \in Clients : ThreadStartError(c)
  \/ \E c \in Clients : \E k \in 1..Min(RecvBufSize, Len(c2s[c])) : Recv(c, k)
  \/ \E c \in Clients : RecvEof(c)
  \/ \E c \in Clients : RecvError(c)
  \/ \E c \in Clients : Send(c)
  \/ \E c \in Clients : SendError(c)
  \/ \E c \in Clients : Close(c)
  \/ \E c \in Clients : ClientConnect(c)
  \/ \E c \in Clients : ClientSend(c)
  \/ \E c \in Clients : ClientClose(c)
  \/ \E c \in Clients : ClientReset(c)

Spec == Init /\ [][Next]_vars

\* the same server with clients that speak the specified wire format
InitFramed == InitState(Assignments(FramedWrites, MaxMsgs))
SpecFramed == InitFramed /\ [][Next]_vars

\* one client sending "hello" or an oversized payload, the others idle talkers
InitScenario ==
  InitState({f \in [Clients -> Scripts(ScenarioWrites, 1)] :
               \A c \in Clients : c # 1 => f[c] = <<>>})
SpecScenario == InitScenario /\ [][Next]_vars


\* a client message one byte longer than the receive buffer, and one of the
\* same length whose last character, U+00E9, straddles the buffer boundary
LongMessage == [i \in 1..(RecvBufSize + 1) |-> 97]
LongSplit == [i \in 1..(RecvBufSize - 1) |-> 97] \o PayloadEAcute

LongWrites == {LongMessage, LongSplit}

\* client 1 sends one long message, client 2 two short ones, the others none
InitLong ==
  InitState({f \in [Clients -> Scripts(LongWrites \cup {PayloadHi}, 2)] :
               /\ f[1] \in {<<w>> : w \in LongWrites}
               /\ \A c \in Clients \ {1} :
                    f[c] = IF c = 2 THEN <<PayloadHi, PayloadHi>> ELSE <<>>})

\* the server with recv(1024) returning all that has arrived, up to the buffer
\* size: the shorter reads are the ones Next already takes
NextGreedy ==
  \/ Listen
  \/ BindError
  \/ \E e \in AcceptErrorKinds : AcceptError(e)
  \/ \E c \in Clients : Accept(c)
  \/ \E c \in Clients : ThreadStartError(c)
  \/ \E c \in Clients : Recv(c, Min(RecvBufSize, Len(c2s[c])))
  \/ \E c \in Clients : RecvEof(c)
  \/ \E c \in Clients : RecvError(c)
  \/ \E c \in Clients : Send(c)
  \/ \E c \in Clients : SendError(c)
  \/ \E c \in Clients : Close(c)
  \/ \E c \in Clients : ClientConnect(c)
  \/ \E c \in Clients : ClientSend(c)
  \/ \E c \in Clients : ClientClose(c)
  \/ \E c \in Clients : ClientReset(c)

SpecLong == InitLong /\ [][NextGreedy]_vars


\* ---------------------------------------------------- tcpsockets.py load
\* no server has been started and no client program runs
ServerIdle ==
  /\ lpc = "start"
  /\ lerr = "none"
  /\ cli = [c \in Clients |-> "idle"]
  /\ script = [c \in Clients |-> <<>>]
  /\ nsent = [c \in Clients |-> 0]
  /\ c2s = [c \in Clients |-> <<>>]
  /\ sock = [c \in Clients |-> "none"]
  /\ sess = [c \in Clients |-> "none"]
  /\ data = [c \in Clients |-> <<>>]
  /\ resp = [c \in Clients |-> <<>>]
  /\ err = [c \in Clients |-> "none"]
  /\ closes = [c \in Clients |-> 0]

\* the arguments start_client is called with
Hosts == {"127.0.0.1", "localhost"}
Ports == {8080, 65535}
Messages == {Utf8Decode(p).cps : p \in Payloads}

\* the import has defined start_server .. start_client and is about to enter
\* the module-level try
InitModule ==
  /\ ServerIdle
  /\ mpc = "load"
  /\ cops = <<>>
  /\ cout = <<>>
  /\ calls = <<>>
  /\ SortIdle

\* socket.socket(AF_INET, SOCK_STREAM) returns a socket
ModuleSocket ==
  /\ mpc = "load"
  /\ cops' = Append(cops, "socket")
  /\ mpc' = "connect"
  /\ UNCHANGED <<cout, calls>>
  /\ UNCHANGED <<serverVars, sortVars>>

\* socket.socket raises (no descriptor left): on to the except branch
ModuleSocketError ==
  /\ mpc = "load"
  /\ mpc' = "except"
  /\ UNCHANGED <<cops, cout, calls>>
  /\ UNCHANGED <<serverVars, sortVars>>

\* client_socket.connect((host, port)): evaluating the argument raises
\* NameError, host is not a name of the module, before connect is called
ModuleConnect ==
  /\ mpc = "connect"
  /\ mpc' = "except"
  /\ UNCHANGED <<cops, cout, calls>>
  /\ UNCHANGED <<serverVars, sortVars>>

\* the bare except prints the client error message; the module is loaded
ModuleExcept ==
  /\ mpc = "except"
  /\ cout' = Append(cout, ClientErrorMessage)
  /\ mpc' = "loaded"
  /\ UNCHANGED <<cops, calls>>
  /\ UNCHANGED <<serverVars, sortVars>>

\* start_client with the module-level statements as its body: socket, connect,
\* sendall, recv, print and close run on every call
StartClientRuns(h, p, m) ==
  /\ mpc = "loaded"
  /\ Len(calls) < MaxCalls
  /\ calls' = Append(calls, [host |-> h, port |-> p, message |-> m, returned |-> "None"])
  /\ cops' = cops \o <<"socket", "connect", "sendall", "recv", "close">>
  /\ cout' = Append(cout, "Received from server: ")
  /\ UNCHANGED mpc
  /\ UNCHANGED <<serverVars, sortVars>>

\* start_client(host, port, message): the body is the docstring, the call
\* returns None
start_client(h, p, m) ==
  /\ mpc = "loaded"
  /\ Len(calls) < MaxCalls
  /\ calls' = Append(calls, [host |-> h, port |-> p, message |-> m, returned |-> "None"])
  /\ UNCHANGED <<mpc, cops, cout>>
  /\ UNCHANGED <<serverVars, sortVars>>

NextModule ==
  \/ ModuleSocket
  \/ ModuleSocketError
  \/ ModuleConnect
  \/ ModuleExcept
  \/ \E h \in Hosts : \E p \in Ports : \E m \in Messages : start_client(h, p, m)

SpecModule == InitModule /\ [][NextModule]_vars

\* ------------------------------------------------------------ basicsorts
SortValues == -1..2
SortInputs == UNION {[1..n -> SortValues] : n \in 0..MaxSortLen}

\* if arr[j] > arr[j + 1]: swap them (j counts from 1)
SwapIfGreater(arr, j) ==
  IF arr[j] > arr[j + 1]
  THEN [arr EXCEPT ![j] = arr[j + 1], ![j + 1] = arr[j]]
  ELSE arr

\* for j in range(0, n - i - 1): the inner loop from position j up to last
RECURSIVE BubblePass(_, _, _)
BubblePass(arr, j, last) ==
  IF j > last THEN arr ELSE BubblePass(SwapIfGreater(arr, j), j + 1, last)

\* for i in range(n - 1): the passes from i on
RECURSIVE BubbleLoop(_, _)
BubbleLoop(arr, i) ==
  LET n == Len(arr)
  IN  IF i >= n - 1 THEN arr ELSE BubbleLoop(BubblePass(arr, 1, n - i - 1), i + 1)

bubble_sort(arr) == BubbleLoop(arr, 0)

RECURSIVE quick_sort(_)

\* quick_sort with middle = [pivot] instead of every element equal to it
quick_sort_single_pivot(arr) ==
  IF Len(arr) <= 1 THEN arr
  ELSE
    LET pivot == arr[(Len(arr) \div 2) + 1]
        left == SelectSeq(arr, LAMBDA x : x < pivot)
        middle == <<pivot>>
        right == SelectSeq(arr, LAMBDA x : x > pivot)
    IN  quick_sort(left) \o middle \o quick_sort(right)

quick_sort(arr) ==
  IF Len(arr) <= 1 THEN arr
  ELSE
    LET pivot == arr[(Len(arr) \div 2) + 1]
        left == SelectSeq(arr, LAMBDA x : x < pivot)
        middle == SelectSeq(arr, LAMBDA x : x = pivot)
        right == SelectSeq(arr, LAMBDA x : x > pivot)
    IN  quick_sort(left) \o middle \o quick_sort(right)

\* the while loop of merge from the indices i, j (counted from 1) with the
\* result so far, then the two extends
RECURSIVE MergeLoop(_, _, _, _, _)
MergeLoop(left, right, i, j, result) ==
  IF i <= Len(left) /\ j <= Len(right)
  THEN IF left[i] < right[j]
       THEN MergeLoop(left, right, i + 1, j, Append(result, left[i]))
       ELSE MergeLoop(left, right, i, j + 1, Append(result, right[j]))
  ELSE result \o SubSeq(left, i, Len(left)) \o SubSeq(right, j, Len(right))

merge(left, right) == MergeLoop(left, right, 1, 1, <<>>)

RECURSIVE merge_sort(_)
merge_sort(arr) ==
  IF Len(arr) <= 1 THEN arr
  ELSE
    LET mid == Len(arr) \div 2
        left_half == SubSeq(arr, 1, mid)
        right_half == SubSeq(arr, mid + 1, Len(arr))
    IN  merge(merge_sort(left_half), merge_sort(right_half))

\* any finite list of integers (from a small range) is the input
InitSort ==
  /\ ServerIdle
  /\ ModuleLoaded
  /\ sin \in SortInputs
  /\ sout = NoResult

\* bubble_sort(list(sin)) returns
CallBubbleSort ==
  /\ "bubble" \notin sout.done
  /\ sout' = [sout EXCEPT !.done = @ \cup {"bubble"}, !.bubble = bubble_sort(sin)]
  /\ UNCHANGED sin
  /\ UNCHANGED <<serverVars, moduleVars>>

\* quick_sort(list(sin)) returns
CallQuickSort ==
  /\ "quick" \notin sout.done
  /\ sout' = [sout EXCEPT !.done = @ \cup {"quick"}, !.quick = quick_sort(sin)]
  /\ UNCHANGED sin
  /\ UNCHANGED <<serverVars, moduleVars>>

\* merge_sort(list(sin)) returns
CallMergeSort ==
  /\ "merge" \notin sout.done
  /\ sout' = [sout EXCEPT !.done = @ \cup {"merge"}, !.merge = merge_sort(sin)]
  /\ UNCHANGED sin
  /\ UNCHANGED <<serverVars, moduleVars>>

NextSort ==
  \/ CallBubbleSort
  \/ CallQuickSort
  \/ CallMergeSort

SpecSort == InitSort /\ [][NextSort]_vars


\* ---------------------------------------------------------------- claims
\* the payload of a frame (the bytes after the 4-byte length field)
unframe(w) == SubSeq(w, 5, Len(w))

PrefixBytes == Utf8Encode(ResponsePrefix)

\* the response frame the specified server answers payload P with
ExpectedResponse(P) == frame(PrefixBytes \o P)

\* all bytes written to connection c, in order
RECURSIVE Flatten(_)
Flatten(q) == IF q = <<>> THEN <<>> ELSE q[1] \o Flatten(Tail(q))

\* the chunk each response answers (the response without its prefix)
Answered(c) ==
  [i \in 1..Len(resp[c]) |-> SubSeq(resp[c][i], Len(PrefixBytes) + 1, Len(resp[c][i]))]

\* sessions whose handler thread has started and not yet finished
Live == {c \in Clients : sess[c] \in {"recv", "send", "close"}}

\* C1: a client that sends the single frame frame(P), len(P) <= max_frame_size,
\* gets exactly one response, frame("Server received: " + P): never two, never
\* one built from part of P, and one once the server has read all of the frame.
C1_SingleFrameSingleResponse ==
  \A c \in Clients :
    (nsent[c] = 1 /\ Len(script[c]) = 1 /\ Len(unframe(script[c][1])) <= MaxFrameSize)
      => /\ Len(resp[c]) <= 1
         /\ \A i \in 1..Len(resp[c]) : resp[c][i] = ExpectedResponse(unframe(script[c][1]))
         /\ (sess[c] = "recv" /\ cli[c] = "connected" /\ c2s[c] = <<>>) => Len(resp[c]) = 1

\* C2: with several clients each sending frames, a connection carries at most
\* one response per frame sent on it, and the i-th response on a connection is
\* the response to the i-th frame sent on that connection.
C2_OrderedResponsesPerConnection ==
  \A c \in Clients :
    /\ Len(resp[c]) <= nsent[c]
    /\ \A i \in 1..Len(resp[c]) :
         i <= nsent[c] => resp[c][i] = ExpectedResponse(unframe(script[c][i]))

\* C3: a step in which a session's handler catches an error moves only that
\* session (to the close after its loop): the listener and every other
\* session, with its socket, buffered input, data and responses, are unchanged.
C3_FailureIsolation ==
  [][\A c \in Clients :
       (err[c] = "none" /\ err'[c] # "none")
         => /\ sess'[c] = "close"
            /\ lpc' = lpc /\ lerr' = lerr
            /\ \A d \in Clients \ {c} :
                 /\ sess'[d] = sess[d] /\ sock'[d] = sock[d] /\ err'[d] = err[d]
                 /\ c2s'[d] = c2s[d] /\ data'[d] = data[d] /\ resp'[d] = resp[d]]_vars

\* C3 witness: one session ended on an error while the listener is still
\* accepting and another session, served after all, waits for its next request.
C3_Witness ==
  \E c \in Clients : \E d \in Clients \ {c} :
    /\ err[c] # "none" /\ sess[c] = "done"
    /\ lpc = "accept"
    /\ sess[d] = "recv" /\ Len(resp[d]) >= 1 /\ err[d] = "none"

\* C4: the number of simultaneously live sessions never exceeds
\* max_concurrent_sessions.
C4_SessionCeiling == Cardinality(Live) <= MaxConcurrentSessions

\* C5: a connection on which a payload longer than max_frame_size was sent
\* never carries an echo response.
C5_OversizeGetsNoResponse ==
  \A c \in Clients :
    (nsent[c] >= 1 /\ Len(unframe(script[c][1])) > MaxFrameSize) => resp[c] = <<>>

\* C6: when the server has been stopped and start_server has returned, every
\* session has reached CLOSED: no handler is still running, no accepted socket
\* is still open.
C6_StoppedServerHasNoSessions ==
  (lpc = "returned" /\ lerr = "accept_fatal")
    => \A c \in Clients : sess[c] \in {"none", "done"} /\ sock[c] # "open"

\* C7: the scenario connect, send frame("hello"), receive
\* frame("Server received: hello"), close: when the session has ended without an
\* error after the client's close, the bytes written to the client are exactly
\* that response frame.
C7_HelloScenario ==
  \A c \in Clients :
    (/\ script[c] = <<frame(Hello)>> /\ nsent[c] = 1
     /\ cli[c] = "closed" /\ sess[c] = "done" /\ err[c] = "none")
      => Flatten(resp[c]) = ExpectedResponse(Hello)

\* C8: once the server has read everything a client wrote, the messages its
\* read path delivered are the payloads the client framed, one for one and in
\* order, however the stream was split into reads.
C8_CodecRoundTrip ==
  \A c \in Clients :
    (/\ nsent[c] = Len(script[c]) /\ cli[c] = "connected"
     /\ sess[c] = "recv" /\ c2s[c] = <<>>)
      => Answered(c) = [i \in 1..Len(script[c]) |-> unframe(script[c][i])]

\* C9: what the read step hands to the response step is never part of a
\* frame: it is a whole frame the client wrote.
C9_NoPartialFrame ==
  \A c \in Clients :
    sess[c] = "send" => \E i \in 1..nsent[c] : Utf8Encode(data[c]) = script[c][i]

\* C10: after a transient error of the accept call the listener is still in
\* its accept loop.
C10_TransientAcceptErrorContinues ==
  lerr = "accept_transient" => lpc = "accept"

\* ------------------------------------------------- listener-level outcome
\* the process status after start_server ends: the except branch prints and
\* falls off the end of the function, and nothing calls sys.exit, so the
\* status is 0 whatever ended the accept loop
ExitStatus == 0

\* the cancellation signal of session c: the handler's loop is `while True`
\* and takes no signal, so no session is ever cancelled
Cancelled(c) == FALSE

\* the sessions start_server can enumerate: it stores the threads it starts
\* nowhere (client_handler is rebound on every iteration and lost on return)
Registry == {}

\* the lifecycle stage of a handler position: not created, in the loop
\* (CONNECTED/ACTIVE), after the loop before close() (CLOSING), finished (CLOSED)
Rank(s) ==
  CASE s = "none" -> 0
    [] s \in {"recv", "send"} -> 1
    [] s = "close" -> 2
    [] s = "done" -> 3

\* all bytes client c has written so far
Written(c) == Flatten(SubSeq(script[c], 1, nsent[c]))

\* how many of the frames client c wrote the server has read completely
FramesRead(c) ==
  LET consumed == Len(Written(c)) - Len(c2s[c])
  IN  Cardinality({i \in 1..nsent[c] : Len(Flatten(SubSeq(script[c], 1, i))) <= consumed})

\* C11: a failure to bind, or an unrecoverable fault in the accept loop, ends
\* the server with a non-zero status.
C11_ListenerFailureExitsNonZero ==
  (lpc = "returned" /\ lerr \in {"bind", "thread"}) => ExitStatus # 0

\* C12: when shutdown has run (accepting stopped, then the cancel broadcast,
\* then the drain) no session has missed the cancellation: every session still
\* live after the server stopped has its cancellation signal set.
C12_NoSessionMissesCancel ==
  (lpc = "returned" /\ lerr = "accept_fatal") => \A c \in Live : Cancelled(c)

C16_SocketReleasedOnEveryExit ==
  \A c \in Clients : sess[c] = "done" => sock[c] = "closed"

\* C16 witness: one handler has finished after a decode error while processing
\* and another after a failed write.
C16_Witness ==
  \E c \in Clients : \E d \in Clients \ {c} :
    /\ sess[c] = "done" /\ err[c] = "UnicodeDecodeError"
    /\ sess[d] = "done" /\ err[d] = "BrokenPipeError"

\* C17: a session has a registry entry exactly while it is created and not
\* finished, so every running session can be enumerated.
C17_RegistryMembership ==
  \A c \in Clients : c \in Registry <=> c \in Live

\* C19: no response is written before the request it answers has been read
\* completely: a connection never carries more responses than frames the
\* server has read in full.
C19_NoResponseBeforeRequestRead ==
  \A c \in Clients : cli[c] # "reset" => Len(resp[c]) <= FramesRead(c)

\* C20: once the server has been told to stop (the point at which every
\* session's cancellation is signalled), a session waiting at a frame boundary
\* starts no further exchange.
C20_NoExchangeAfterCancel ==
  [][\A c \in Clients :
       (lpc = "returned" /\ lerr = "accept_fatal" /\ sess[c] = "recv")
         => sess'[c] # "send"]_vars

\* ------------------------------------------------------ handler outcomes
\* the record the handler's except branch writes for the exception it caught:
\* `except: break` prints nothing
SessionErrorRecord(c) == "none"

\* what start_server's except branch prints, whatever was raised
ListenerErrorRecord ==
  IF lerr # "none" THEN "Error encountered in start_server" ELSE "none"

\* the bytes of the chunk the handler holds between recv and sendall
Pending(c) == IF sess[c] = "send" THEN Utf8Encode(data[c]) ELSE <<>>

\* the bytes the server has read from connection c and not answered
Unanswered(c) ==
  SubSeq(Written(c), Len(Flatten(Answered(c))) + 1, Len(Written(c)) - Len(c2s[c]))

\* C21: after a failed response write the handler is out of its loop for good
\* (no further read or write on the connection), the chunk whose write failed
\* has not been written, and nothing more has been read.
C21_NoRetryAfterFailedWrite ==
  \A c \in Clients :
    /\ (err[c] \in {"BrokenPipeError", "ConnectionResetError"})
         => sess[c] \in {"close", "done"}
    /\ err[c] = "BrokenPipeError"
         => Flatten(Answered(c)) \o Utf8Encode(data[c]) \o c2s[c] = Written(c)

\* C21 witness: a handler has finished after a response write failed.
C21_Witness ==
  \E c \in Clients :
    err[c] = "BrokenPipeError" /\ sess[c] = "done" /\ closes[c] = 1 /\ Len(resp[c]) >= 1

\* C22: a session waiting in a read can always leave it on its own (after the
\* read timeout at the latest), also when the peer neither sends nor closes.
C22_ReadCannotBlockForever ==
  \A c \in Clients :
    sess[c] = "recv"
      => ENABLED (\/ RecvEof(c)
                  \/ RecvError(c)
                  \/ \E k \in 1..Min(RecvBufSize, Len(c2s[c])) : Recv(c, k))

\* C23: every error that ends a session or the accept loop leaves a record
\* that names the error's class.
C23_SessionErrorsAreRecorded ==
  /\ \A c \in Clients : err[c] # "none" => SessionErrorRecord(c) = err[c]
  /\ lerr # "none" => ListenerErrorRecord = lerr

\* C24: a step that is not a step of session c's handler neither closes, reads
\* nor writes c's socket: not the listener's steps, not another handler's.
C24_SocketOwnedBySession ==
  [][\A c \in Clients :
       (sess[c] # "none" /\ sess'[c] = sess[c])
         => /\ sock'[c] = sock[c] /\ closes'[c] = closes[c]
            /\ resp'[c] = resp[c] /\ data'[c] = data[c]
            /\ (c2s'[c] = c2s[c] \/ nsent'[c] # nsent[c] \/ cli'[c] # cli[c])]_vars

\* C24 witness: two sessions have each been answered on their own connection
\* while the listener still accepts.
C24_Witness ==
  \E c \in Clients : \E d \in Clients \ {c} :
    /\ lpc = "accept"
    /\ Len(resp[c]) >= 1 /\ Len(resp[d]) >= 1
    /\ sock[c] = "open" /\ sock[d] = "open"

\* C26: after a chunk that does not decode as UTF-8 the handler is out of its
\* loop, the chunk it read last is unanswered and is not valid UTF-8.
C26_UndecodableChunkEndsSession ==
  \A c \in Clients :
    (err[c] = "UnicodeDecodeError" /\ cli[c] # "reset")
      => /\ sess[c] \in {"close", "done"}
         /\ Unanswered(c) # <<>>
         /\ ~Utf8Decode(Unanswered(c)).ok
         /\ Flatten(Answered(c)) \o Unanswered(c) \o c2s[c] = Written(c)

\* C26 witness: the connection was closed on a decode error although the peer
\* is still connected and what it wrote is well-formed UTF-8.
C26_Witness ==
  \E c \in Clients :
    /\ err[c] = "UnicodeDecodeError" /\ sess[c] = "done" /\ sock[c] = "closed"
    /\ cli[c] = "connected"
    /\ Utf8Decode(Written(c)).ok

\* C27: close() is called at most once on a session's socket, exactly once by
\* the time the handler has finished, and only as the handler's last step.
C27_ClosedExactlyOnceAndLast ==
  \A c \in Clients :
    /\ closes[c] <= 1
    /\ closes[c] = 1 <=> sess[c] = "done"
    /\ closes[c] = 1 <=> sock[c] = "closed"

\* C27 witness: a served session has finished with its one close.
C27_Witness ==
  \E c \in Clients : closes[c] = 1 /\ Len(resp[c]) >= 1 /\ err[c] = "none"

\* C28: after the accept loop has ended on an exception, the sessions are
\* neither cancelled nor closed: one that has left its loop did so on its own
\* peer's close or its own error, and one in its loop can go on serving.
C28_SessionsOutliveListener ==
  lpc = "returned"
    => \A c \in Clients :
         /\ sess[c] \in {"close", "done"} => (err[c] # "none" \/ cli[c] = "closed")
         /\ (sess[c] = "send" /\ cli[c] # "reset") => ENABLED Send(c)
         /\ (sess[c] = "recv" /\ cli[c] # "reset" /\ c2s[c] # <<>>)
              => ENABLED Recv(c, Min(RecvBufSize, Len(c2s[c])))

\* C28 witness: start_server has returned from the accept loop while a session
\* that was served is still open and about to answer its next chunk.
C28_Witness ==
  \E c \in Clients :
    /\ lpc = "returned" /\ lerr \in AcceptErrorKinds
    /\ sess[c] = "send" /\ sock[c] = "open" /\ Len(resp[c]) >= 1

\* C25: the handler answers per read. Every response is the prefix followed by
\* one chunk of 1..1024 bytes, and the chunks answered, the chunk in hand and
\* the bytes not yet read are, in this order, exactly what the client wrote:
\* one response per chunk read, whatever the client's message boundaries.
C25_OneResponsePerRead ==
  \A c \in Clients :
    /\ \A i \in 1..Len(resp[c]) :
         /\ SubSeq(resp[c][i], 1, Len(PrefixBytes)) = PrefixBytes
         /\ Len(Answered(c)[i]) >= 1
         /\ Len(Answered(c)[i]) <= RecvBufSize
    /\ (err[c] = "none" /\ cli[c] # "reset")
         => Flatten(Answered(c)) \o Pending(c) \o c2s[c] = Written(c)

\* C25 witness: the one message of 1025 bytes got two responses (1024 bytes and
\* 1 byte, each with the prefix), and the two messages of the other client,
\* delivered in one read, got a single combined response.
C25_Witness ==
  /\ script[1] = <<LongMessage>>
  /\ Len(resp[1]) = 2
  /\ Len(resp[1][1]) = Len(PrefixBytes) + RecvBufSize
  /\ resp[1][2] = PrefixBytes \o <<97>>
  /\ resp[2] = <<PrefixBytes \o PayloadHi \o PayloadHi>>

IsAscending(s) == \A i \in 1..(Len(s) - 1) : s[i] <= s[i + 1]

\* s and t hold the same elements the same number of times
SameElements(s, t) ==
  /\ Len(s) = Len(t)
  /\ \A v \in SortValues :
       Cardinality({i \in 1..Len(s) : s[i] = v}) = Cardinality({i \in 1..Len(t) : t[i] = v})

\* C30: each of bubble_sort, quick_sort and merge_sort returns the ascending
\* permutation of its input, so the three return the same list.
C30_SortsAgree ==
  /\ "bubble" \in sout.done => (IsAscending(sout.bubble) /\ SameElements(sout.bubble, sin))
  /\ "quick" \in sout.done => (IsAscending(sout.quick) /\ SameElements(sout.quick, sin))
  /\ "merge" \in sout.done => (IsAscending(sout.merge) /\ SameElements(sout.merge, sin))
  /\ {"bubble", "quick"} \subseteq sout.done => sout.bubble = sout.quick
  /\ {"quick", "merge"} \subseteq sout.done => sout.quick = sout.merge

\* C30 witness: the three functions have returned for an input of at least
\* three elements that holds a duplicate and is not in ascending order.
C30_Witness ==
  /\ sout.done = {"bubble", "quick", "merge"}
  /\ Len(sin) >= 3
  /\ ~IsAscending(sin)
  /\ \E i \in 1..Len(sin) : \E j \in 1..Len(sin) : i # j /\ sin[i] = sin[j]

====
